---------------------------- MODULE Spec2Model ----------------------------
(***************************************************************************)
(* Model of ruby-version-checker-rs: src/src/main.rs (parse_data, valid,   *)
(* latest_versions, main) and src/src/client.rs (fetch_data).              *)
(*                                                                         *)
(* Text is modelled at character level: a string is a sequence of          *)
(* one-character strings, so that prefix stripping, version parsing and    *)
(* the URL regex are computed the way the code computes them.              *)
(* A csv text is modelled by its records: the header record and the data   *)
(* rows, each a sequence of fields (tab-separated in the text).            *)
(***************************************************************************)
EXTENDS Integers, Sequences, FiniteSets, TLC

VARIABLES
    caller,    \* "main" (main.rs:102) or "test" (the composition the tests make)
    pc,        \* position of the run
    remote,    \* the csv text the remote server would answer with
    fetched,   \* TRUE once fetch_data returned a body
    csv,       \* the argument of parse_data
    i,         \* parse_data: index of the next row of the reader
    result,    \* parse_data: the vector `result`
    line,      \* parse_data: outcome of deserializing the last row read
    itemValid, \* parse_data: value of item.valid() for the last row read
    ret,       \* what parse_data returned: "none", "Ok" or "Err"
    latest,    \* what latest_versions returned
    stdout,    \* lines printed by main
    exit       \* "running", "success" (status 0) or "failure" (status 1)

vars == <<caller, pc, remote, fetched, csv, i, result, line, itemValid,
          ret, latest, stdout, exit>>

\* Largest number of data rows of a modelled csv text.
MaxRows == 2

-----------------------------------------------------------------------------
(* Characters and text helpers *)

Digit == {"0", "1", "2", "3", "4", "5", "6", "7", "8", "9"}

AsciiOrder ==
    <<"-", ".", "0", "1", "2", "3", "4", "5", "6", "7", "8", "9",
      "A", "B", "C", "D", "E", "F", "G", "H", "I", "J", "K", "L", "M",
      "N", "O", "P", "Q", "R", "S", "T", "U", "V", "W", "X", "Y", "Z",
      "a", "b", "c", "d", "e", "f", "g", "h", "i", "j", "k", "l", "m",
      "n", "o", "p", "q", "r", "s", "t", "u", "v", "w", "x", "y", "z">>

\* The bytes an identifier of a prerelease or of build metadata may hold.
IdentChar == {AsciiOrder[k] : k \in DOMAIN AsciiOrder}

Rank(c) == CHOOSE k \in DOMAIN AsciiOrder : AsciiOrder[k] = c

DigitVal(c) == Rank(c) - Rank("0")

StartsWith(s, p) == Len(s) >= Len(p) /\ SubSeq(s, 1, Len(p)) = p

EndsWith(s, p) == Len(s) >= Len(p) /\ SubSeq(s, Len(s) - Len(p) + 1, Len(s)) = p

Drop(s, n) == SubSeq(s, n + 1, Len(s))

RUBY_PREFIX == <<"r", "u", "b", "y", "-">>

HTTPS == <<"h", "t", "t", "p", "s", ":", "/", "/">>

TAR_GZ == <<".", "t", "a", "r", ".", "g", "z">>


-----------------------------------------------------------------------------
(* semver::Version and its parser (version.parse() in parse_semver_version) *)

EMPTY == <<>>

Version(major, minor, patch, pre, build) ==
    [major |-> major, minor |-> minor, patch |-> patch, pre |-> pre, build |-> build]

ParseErr == [ok |-> FALSE]

\* First position at or after k that holds no digit.
RECURSIVE DigitsEnd(_, _)
DigitsEnd(s, k) ==
    IF k <= Len(s) /\ s[k] \in Digit THEN DigitsEnd(s, k + 1) ELSE k

\* Value of the decimal digits s[k..e-1], given acc for the digits before k.
RECURSIVE NumVal(_, _, _, _)
NumVal(s, k, e, acc) ==
    IF k >= e THEN acc ELSE NumVal(s, k + 1, e, acc * 10 + DigitVal(s[k]))

\* A numeric identifier at position k: at least one digit, no leading zero.
NumericIdentifier(s, k) ==
    LET e == DigitsEnd(s, k)
    IN  IF e = k THEN ParseErr
        ELSE IF s[k] = "0" /\ e > k + 1 THEN ParseErr
        ELSE [ok |-> TRUE, val |-> NumVal(s, k, e, 0), next |-> e]

\* First position at or after k that holds no identifier byte.
RECURSIVE IdentEnd(_, _)
IdentEnd(s, k) ==
    IF k <= Len(s) /\ s[k] \in IdentChar THEN IdentEnd(s, k + 1) ELSE k

\* The dot-separated segments of a text (as str::split('.') gives them).
RECURSIVE Split(_)
Split(t) ==
    IF \A k \in 1..Len(t) : t[k] # "." THEN <<t>>
    ELSE LET d == CHOOSE k \in 1..Len(t) :
                      t[k] = "." /\ \A j \in 1..(k - 1) : t[j] # "."
         IN  <<SubSeq(t, 1, d - 1)>> \o Split(Drop(t, d))

AllDigits(seg) == \A k \in 1..Len(seg) : seg[k] \in Digit

\* An identifier (prerelease when isPre, else build metadata) at position k:
\* no empty segment, and in a prerelease no numeric segment with a leading zero.
\* The empty identifier (nothing to read at k) is returned as such.
Identifier(s, k, isPre) ==
    LET e    == IdentEnd(s, k)
        t    == SubSeq(s, k, e - 1)
        segs == Split(t)
    IN  IF t = EMPTY THEN [ok |-> TRUE, val |-> EMPTY, next |-> e]
        ELSE IF \E n \in 1..Len(segs) : segs[n] = EMPTY THEN ParseErr
        ELSE IF isPre /\ \E n \in 1..Len(segs) :
                    AllDigits(segs[n]) /\ Len(segs[n]) > 1 /\ segs[n][1] = "0"
             THEN ParseErr
        ELSE [ok |-> TRUE, val |-> t, next |-> e]

\* What follows the patch number at position k: [-pre][+build], then the end.
ParseSuffix(s, k, major, minor, patch) ==
    LET hasPre == k <= Len(s) /\ s[k] = "-"
        pre    == IF hasPre THEN Identifier(s, k + 1, TRUE)
                  ELSE [ok |-> TRUE, val |-> EMPTY, next |-> k]
    IN  IF ~pre.ok \/ (hasPre /\ pre.val = EMPTY) THEN ParseErr
        ELSE LET b        == pre.next
                 hasBuild == b <= Len(s) /\ s[b] = "+"
                 build    == IF hasBuild THEN Identifier(s, b + 1, FALSE)
                             ELSE [ok |-> TRUE, val |-> EMPTY, next |-> b]
             IN  IF ~build.ok \/ (hasBuild /\ build.val = EMPTY) THEN ParseErr
                 ELSE IF build.next <= Len(s) THEN ParseErr
                 ELSE [ok |-> TRUE,
                       val |-> Version(major, minor, patch, pre.val, build.val)]

\* <semver::Version as FromStr>::from_str: major "." minor "." patch suffix.
ParseVersion(s) ==
    LET major == NumericIdentifier(s, 1)
    IN  IF ~major.ok THEN ParseErr
        ELSE IF ~(major.next <= Len(s) /\ s[major.next] = ".") THEN ParseErr
        ELSE LET minor == NumericIdentifier(s, major.next + 1)
             IN  IF ~minor.ok THEN ParseErr
                 ELSE IF ~(minor.next <= Len(s) /\ s[minor.next] = ".") THEN ParseErr
                 ELSE LET patch == NumericIdentifier(s, minor.next + 1)
                      IN  IF ~patch.ok THEN ParseErr
                          ELSE ParseSuffix(s, patch.next, major.val, minor.val, patch.val)

\* parse_semver_version: strip_prefix("ruby-").unwrap() panics on a name without
\* the prefix; a version that does not parse is a deserialization error.
parse_semver_version(name) ==
    IF ~StartsWith(name, RUBY_PREFIX) THEN [tag |-> "panic"]
    ELSE LET v == ParseVersion(Drop(name, Len(RUBY_PREFIX)))
         IN  IF v.ok THEN [tag |-> "ok", val |-> v.val] ELSE [tag |-> "err"]

-----------------------------------------------------------------------------
(* Ordering of semver::Version (derived Ord: major, minor, patch, pre, build) *)

CmpInt(a, b) == IF a < b THEN -1 ELSE IF a > b THEN 1 ELSE 0

\* Byte-wise lexicographic order of two texts (str::cmp).
RECURSIVE CmpText(_, _)
CmpText(a, b) ==
    IF a = EMPTY /\ b = EMPTY THEN 0
    ELSE IF a = EMPTY THEN -1
    ELSE IF b = EMPTY THEN 1
    ELSE IF Rank(a[1]) # Rank(b[1]) THEN CmpInt(Rank(a[1]), Rank(b[1]))
    ELSE CmpText(Tail(a), Tail(b))

RECURSIVE TrimZeros(_)
TrimZeros(seg) ==
    IF seg # EMPTY /\ seg[1] = "0" THEN TrimZeros(Tail(seg)) ELSE seg

\* Order of two identifier segments: numeric below alphanumeric, numeric ones
\* by value (then by length), alphanumeric ones byte-wise.
CmpSegment(a, b) ==
    IF AllDigits(a) /\ AllDigits(b)
    THEN LET x == TrimZeros(a)
             y == TrimZeros(b)
         IN  IF Len(x) # Len(y) THEN CmpInt(Len(x), Len(y))
             ELSE IF CmpText(x, y) # 0 THEN CmpText(x, y)
             ELSE CmpInt(Len(a), Len(b))
    ELSE IF AllDigits(a) THEN -1
    ELSE IF AllDigits(b) THEN 1
    ELSE CmpText(a, b)

RECURSIVE CmpSegments(_, _)
CmpSegments(xs, ys) ==
    IF xs = <<>> /\ ys = <<>> THEN 0
    ELSE IF xs = <<>> THEN -1
    ELSE IF ys = <<>> THEN 1
    ELSE IF CmpSegment(Head(xs), Head(ys)) # 0 THEN CmpSegment(Head(xs), Head(ys))
    ELSE CmpSegments(Tail(xs), Tail(ys))

\* Ord for semver::Prerelease: the empty prerelease is above every other one.
CmpPre(a, b) ==
    IF a = EMPTY /\ b = EMPTY THEN 0
    ELSE IF a = EMPTY THEN 1
    ELSE IF b = EMPTY THEN -1
    ELSE CmpSegments(Split(a), Split(b))

\* Ord for semver::BuildMetadata.
CmpBuild(a, b) == CmpSegments(Split(a), Split(b))

\* Ord for semver::Version.
CmpVersion(a, b) ==
    IF a.major # b.major THEN CmpInt(a.major, b.major)
    ELSE IF a.minor # b.minor THEN CmpInt(a.minor, b.minor)
    ELSE IF a.patch # b.patch THEN CmpInt(a.patch, b.patch)
    ELSE IF CmpPre(a.pre, b.pre) # 0 THEN CmpPre(a.pre, b.pre)
    ELSE CmpBuild(a.build, b.build)

\* impl Ord for Release: by version alone.
ReleaseCmp(a, b) == CmpVersion(a.version, b.version)

-----------------------------------------------------------------------------
(* Release and its validity *)

Release(version, url, sha256) ==
    [version |-> version, url |-> url, sha256 |-> sha256]

\* const VERSION_RANGE: Range<u64> = 0..99 (the end is exclusive).
VersionRangeStart == 0

VersionRangeEnd == 99

VERSION_RANGE == VersionRangeStart..(VersionRangeEnd - 1)

RegularMajor == 3

\* is_regular_release without its prerelease test.
is_regular_release_any_pre(r) ==
    /\ r.major = RegularMajor
    /\ r.minor \in VERSION_RANGE
    /\ r.patch \in VERSION_RANGE

is_regular_release(r) ==
    /\ r.major = RegularMajor
    /\ r.minor \in VERSION_RANGE
    /\ r.patch \in VERSION_RANGE
    /\ r.pre = EMPTY

\* Regex::new(r"https://.*\.tar\.gz$").is_match(u): an unanchored search for
\* "https://", then any bytes but line feeds, then ".tar.gz" at the very end.
has_tar_gz_url(u) ==
    \E k \in 1..Len(u) :
        LET j == Len(u) - Len(TAR_GZ) + 1
        IN  /\ k + Len(HTTPS) - 1 <= Len(u)
            /\ SubSeq(u, k, k + Len(HTTPS) - 1) = HTTPS
            /\ j >= k + Len(HTTPS)
            /\ SubSeq(u, j, Len(u)) = TAR_GZ
            /\ \A n \in (k + Len(HTTPS))..(j - 1) : u[n] # "\n"

valid(r) == is_regular_release(r.version) /\ has_tar_gz_url(r.url)

-----------------------------------------------------------------------------
(* Deserializing one csv record into a Release (#[derive(Deserialize)]) *)

\* The columns Release reads: `version` is renamed to "name".
Required == {"name", "url", "sha256"}

\* The derived visitor reads the columns left to right: a column Release does
\* not name is ignored, a repeated one is an error, the "name" column goes
\* through parse_semver_version, and a column still missing at the end is an
\* error.
RECURSIVE Visit(_, _, _, _)
Visit(header, row, k, acc) ==
    IF k > Len(header)
    THEN IF Required \subseteq DOMAIN acc
         THEN [tag |-> "ok", rel |-> Release(acc["name"], acc["url"], acc["sha256"])]
         ELSE [tag |-> "err"]
    ELSE LET c == header[k]
         IN  IF c \notin Required THEN Visit(header, row, k + 1, acc)
             ELSE IF c \in DOMAIN acc THEN [tag |-> "err"]
             ELSE IF c = "name"
                  THEN LET p == parse_semver_version(row[k])
                       IN  IF p.tag = "ok"
                           THEN Visit(header, row, k + 1, acc @@ (c :> p.val))
                           ELSE [tag |-> p.tag]
             ELSE Visit(header, row, k + 1, acc @@ (c :> row[k]))

\* One item of csv.deserialize(): a record whose number of fields differs from
\* the header's is an error (the reader is not flexible).
Deserialize(header, row) ==
    IF Len(row) # Len(header) THEN [tag |-> "err"]
    ELSE Visit(header, row, 1, <<>>)

-----------------------------------------------------------------------------
(* latest_versions *)

\* v.retain(|r| r.version.minor == number)
Retain(versions, number) ==
    SelectSeq(versions, LAMBDA r : r.version.minor = number)

\* Insertion that puts an element before the elements equal to it.
RECURSIVE InsertBeforeEqual(_, _)
InsertBeforeEqual(s, x) ==
    IF s = <<>> THEN <<x>>
    ELSE IF ReleaseCmp(x, Head(s)) <= 0 THEN <<x>> \o s
    ELSE <<Head(s)>> \o InsertBeforeEqual(Tail(s), x)

\* Insertion keeping equal elements in their order of arrival.
RECURSIVE Insert(_, _)
Insert(s, x) ==
    IF s = <<>> THEN <<x>>
    ELSE IF ReleaseCmp(x, Head(s)) < 0 THEN <<x>> \o s
    ELSE <<Head(s)>> \o Insert(Tail(s), x)

RECURSIVE SortInto(_, _)
SortInto(acc, v) ==
    IF v = <<>> THEN acc ELSE SortInto(Insert(acc, Head(v)), Tail(v))

\* The vector left as it is: no sort.
SortNone(v) == v

\* v.sort(): a stable sort by ReleaseCmp.
Sort(v) == SortInto(<<>>, v)

\* Every retained element pushed, not the last one alone.
PushedAll(v) == v

\* if let Some(r) = v.last() { releases.push(r.to_owned()) }: what one
\* iteration pushes.
Pushed(v) == IF v = <<>> THEN <<>> ELSE <<v[Len(v)]>>

\* What the loop `for number in VERSION_RANGE` pushes from `number` on.
RECURSIVE LatestFrom(_, _)
LatestFrom(versions, number) ==
    IF number >= VersionRangeEnd THEN <<>>
    ELSE Pushed(Sort(Retain(versions, number))) \o LatestFrom(versions, number + 1)

latest_versions(versions) == LatestFrom(versions, VersionRangeStart)

-----------------------------------------------------------------------------
(* Inputs *)

Name_3_0_5 == RUBY_PREFIX \o <<"3", ".", "0", ".", "5">>

Name_3_1_2 == RUBY_PREFIX \o <<"3", ".", "1", ".", "2">>

Name_3_1_12 == RUBY_PREFIX \o <<"3", ".", "1", ".", "1", "2">>

Name_3_1_12_build == RUBY_PREFIX \o <<"3", ".", "1", ".", "1", "2", "+", "b", "1">>

Name_3_2_0_rc2 == RUBY_PREFIX \o <<"3", ".", "2", ".", "0", "-", "r", "c", "2">>

Name_2_7_0 == RUBY_PREFIX \o <<"2", ".", "7", ".", "0">>

Name_3_99_0 == RUBY_PREFIX \o <<"3", ".", "9", "9", ".", "0">>

Name_3_0_99 == RUBY_PREFIX \o <<"3", ".", "0", ".", "9", "9">>

Name_unparsable == RUBY_PREFIX \o <<"3", ".", "x", ".", "1">>

Name_no_prefix == <<"j">> \o RUBY_PREFIX \o <<"3", ".", "1", ".", "2">>

Url_a == HTTPS \o <<"a">> \o TAR_GZ

Url_b == HTTPS \o <<"b">> \o TAR_GZ

Url_tar_xz == HTTPS \o <<"a", ".", "t", "a", "r", ".", "x", "z">>

Url_http == <<"h", "t", "t", "p", ":", "/", "/", "a">> \o TAR_GZ

Url_embedded == <<"f", "t", "p", ":", "/", "/", "a", "/">> \o HTTPS \o <<"a">> \o TAR_GZ

Url_line_feed == HTTPS \o <<"a", "\n", "b">> \o TAR_GZ

Url_trailing == HTTPS \o <<"a">> \o TAR_GZ \o <<".", "s", "i", "g">>

Sha_1 == <<"a", "1">>

Sha_2 == <<"b", "2">>

\* Data rows of three fields (name, url, sha256), one of two and one of four.
Rows ==
    { <<Name_3_0_5, Url_a, Sha_1>>,
      <<Name_3_1_2, Url_a, Sha_1>>,
      <<Name_3_1_12, Url_a, Sha_1>>,
      <<Name_3_1_12, Url_b, Sha_2>>,
      <<Name_3_1_12_build, Url_a, Sha_1>>,
      <<Name_3_2_0_rc2, Url_a, Sha_1>>,
      <<Name_2_7_0, Url_a, Sha_1>>,
      <<Name_3_99_0, Url_a, Sha_1>>,
      <<Name_3_0_99, Url_a, Sha_1>>,
      <<Name_3_1_2, Url_tar_xz, Sha_1>>,
      <<Name_3_1_2, Url_http, Sha_1>>,
      <<Name_3_1_2, Url_embedded, Sha_1>>,
      <<Name_3_1_2, Url_line_feed, Sha_1>>,
      <<Name_3_1_2, Url_trailing, Sha_1>>,
      <<Name_unparsable, Url_a, Sha_1>>,
      <<Name_no_prefix, Url_a, Sha_1>>,
      <<Name_3_1_2, Url_a>>,
      <<Name_3_0_5, Url_b, Sha_1, Sha_2>> }

Headers ==
    { <<"name", "url", "sha256">>,
      <<"name", "url", "sha1", "sha256">>,
      <<"name", "url">>,
      <<"url", "sha256">> }

BoundedSeq(S, n) == UNION {[1..k -> S] : k \in 0..n}

\* The completely empty text: no header record, no rows.
EmptyText == [header |-> <<>>, rows |-> <<>>]

\* The texts the remote server may answer with.
Texts ==
    {EmptyText} \cup [header : Headers, rows : BoundedSeq(Rows, MaxRows)]

\* The literal main hands to parse_data: the one-line text "csv".
CsvLiteral == [header |-> <<"csv">>, rows |-> <<>>]

-----------------------------------------------------------------------------
(* The runs *)

NoLine == [tag |-> "none"]

Init ==
    /\ caller \in {"main", "test"}
    /\ remote \in (IF caller = "main" THEN {EmptyText} ELSE Texts)
    /\ pc = "start"
    /\ fetched = FALSE
    /\ csv = EmptyText
    /\ i = 1
    /\ result = <<>>
    /\ line = NoLine
    /\ itemValid = FALSE
    /\ ret = "none"
    /\ latest = <<>>
    /\ stdout = <<>>
    /\ exit = "running"

\* fetch_data: the client's request or the reading of the body may fail.
FetchData ==
    /\ caller = "test"
    /\ pc = "start"
    /\ \E ok \in BOOLEAN :
          /\ fetched' = ok
          /\ pc' = IF ok THEN "fetched" ELSE "fetch_failed"
    /\ UNCHANGED <<caller, remote, csv, i, result, line, itemValid, ret,
                   latest, stdout, exit>>

\* parse_data, up to the loop: an empty result and a reader over the text.
ParseDataEnter(text) ==
    /\ csv' = text
    /\ i' = 1
    /\ result' = <<>>
    /\ pc' = "parsing"
    /\ UNCHANGED <<caller, remote, fetched, line, itemValid, ret, latest,
                   stdout, exit>>

\* main: parse_data("csv").await
MainCallsParseData ==
    /\ caller = "main"
    /\ pc = "start"
    /\ ParseDataEnter(CsvLiteral)

\* The tests: parse_data(&data).await on the fetched text.
TestCallsParseData ==
    /\ caller = "test"
    /\ pc = "fetched"
    /\ ParseDataEnter(remote)

\* The vector after one row when valid() is not asked.
ParseStepUnchecked(res, l) ==
    IF l.tag = "ok" THEN Append(res, l.rel) ELSE res

\* The vector after one row: an item is pushed when it deserialized and is valid.
ParseStep(res, l) ==
    IF l.tag = "ok" /\ valid(l.rel) THEN Append(res, l.rel) ELSE res

\* One iteration of `for line in csv.deserialize()`.
ParseDataRow ==
    /\ pc = "parsing"
    /\ i <= Len(csv.rows)
    /\ LET l == Deserialize(csv.header, csv.rows[i])
       IN  /\ line' = l
           /\ itemValid' = (l.tag = "ok" /\ valid(l.rel))
           /\ result' = ParseStep(result, l)
           /\ pc' = IF l.tag = "panic" THEN "panicked" ELSE "parsing"
    /\ i' = i + 1
    /\ UNCHANGED <<caller, remote, fetched, csv, ret, latest, stdout, exit>>

\* Ok(result), once the reader is exhausted.
ParseDataReturn ==
    /\ pc = "parsing"
    /\ i > Len(csv.rows)
    /\ ret' = "Ok"
    /\ pc' = "parse_returned"
    /\ UNCHANGED <<caller, remote, fetched, csv, i, result, line, itemValid,
                   latest, stdout, exit>>

\* main after parse_data: an Err is printed and exits with status 1; otherwise
\* main returns, and the process exits with status 0.
MainExit ==
    /\ caller = "main"
    /\ pc = "parse_returned"
    /\ IF ret = "Err"
       THEN /\ stdout' = Append(stdout, "Error parsing data")
            /\ exit' = "failure"
       ELSE /\ stdout' = stdout
            /\ exit' = "success"
    /\ pc' = "exited"
    /\ UNCHANGED <<caller, remote, fetched, csv, i, result, line, itemValid,
                   ret, latest>>

\* The tests: latest_versions(releases).await on what parse_data returned.
LatestVersions ==
    /\ caller = "test"
    /\ pc = "parse_returned"
    /\ latest' = latest_versions(result)
    /\ pc' = "latest_done"
    /\ UNCHANGED <<caller, remote, fetched, csv, i, result, line, itemValid,
                   ret, stdout, exit>>

Next ==
    \/ FetchData
    \/ MainCallsParseData
    \/ TestCallsParseData
    \/ ParseDataRow
    \/ ParseDataReturn
    \/ MainExit
    \/ LatestVersions

Spec == Init /\ [][Next]_vars

-----------------------------------------------------------------------------
(* Properties *)

Range(s) == {s[k] : k \in 1..Len(s)}

\* The field of a row under the column named c.
FieldOf(header, row, c) == row[CHOOSE k \in 1..Len(header) : header[k] = c]

AllValid(s) == \A k \in 1..Len(s) : valid(s[k])

Minors(s) == {s[k].version.minor : k \in 1..Len(s)}

NoLineFeed(u) == \A k \in 1..Len(u) : u[k] # "\n"

\* C1: once latest_versions has returned for an input of valid records only,
\* for every minor number of the input the result holds one of the input
\* records with that minor (the whole record: version, url, sha256), and no
\* input record of that minor has a greater patch number.
C1_MonotonicSelection ==
    (pc = "latest_done" /\ AllValid(result)) =>
        \A n \in 1..Len(result) :
            \E j \in 1..Len(latest) :
                /\ latest[j].version.minor = result[n].version.minor
                /\ \E q \in 1..Len(result) : result[q] = latest[j]
                /\ \A q \in 1..Len(result) :
                       result[q].version.minor = result[n].version.minor
                           => result[q].version.patch <= latest[j].version.patch

\* C1 witness: two valid records of one minor, the greater patch first, and
\* latest_versions returned the first.
C1_Witness ==
    /\ pc = "latest_done"
    /\ Len(result) = 2
    /\ result[1].version.minor = result[2].version.minor
    /\ result[1].version.patch > result[2].version.patch
    /\ latest = <<result[1]>>

\* C2: a record whose url does not end with ".tar.gz" or does not begin with
\* "https://" is not valid, whatever its version.
C2_UrlGate ==
    (line.tag = "ok"
        /\ (~EndsWith(line.rel.url, TAR_GZ) \/ ~StartsWith(line.rel.url, HTTPS)))
    => ~itemValid

\* C3: for a text whose header names the required columns, parse_data does not
\* abort on a malformed row (wrong number of fields, or a name that is not
\* "ruby-" followed by a version): it returns Ok, without the malformed rows.
C3_RowResilience ==
    (Required \subseteq Range(csv.header)) =>
        /\ pc # "panicked"
        /\ pc = "parse_returned" =>
               /\ ret = "Ok"
               /\ Len(result) <= Cardinality(
                      {n \in 1..Len(csv.rows) :
                           /\ Len(csv.rows[n]) = Len(csv.header)
                           /\ StartsWith(FieldOf(csv.header, csv.rows[n], "name"),
                                         RUBY_PREFIX)})

\* C4: parse_data returns an Err when the text is completely empty or when its
\* header lacks one of the columns name, url, sha256.
C4_StructuralError ==
    (pc = "parse_returned"
        /\ (csv = EmptyText \/ ~(Required \subseteq Range(csv.header))))
    => ret = "Err"

\* C5 as stated: a valid record has major 3, minor and patch in [0, 99) and an
\* empty prerelease; and every such record whose url begins with "https://"
\* and ends with ".tar.gz" is valid.
C5_ValidityAsStated ==
    line.tag = "ok" =>
        LET v == line.rel.version
            u == line.rel.url
            regular == /\ v.major = 3
                       /\ v.minor \in 0..98
                       /\ v.patch \in 0..98
                       /\ v.pre = <<>>
        IN  /\ itemValid => regular
            /\ (regular /\ StartsWith(u, HTTPS) /\ EndsWith(u, TAR_GZ)) => itemValid

\* C5, amended: a valid record has major 3, minor and patch in [0, 99) and an
\* empty prerelease; and every such record whose url begins with "https://",
\* ends with ".tar.gz" and holds no line feed is valid.
C5_Validity ==
    line.tag = "ok" =>
        LET v == line.rel.version
            u == line.rel.url
            regular == /\ v.major = 3
                       /\ v.minor \in 0..98
                       /\ v.patch \in 0..98
                       /\ v.pre = <<>>
        IN  /\ itemValid => regular
            /\ (regular /\ StartsWith(u, HTTPS) /\ EndsWith(u, TAR_GZ)
                    /\ NoLineFeed(u)) => itemValid

\* C5 witness: valid() was asked about a deserialized record with a regular
\* version and an https .tar.gz url, and answered true.
C5_Witness ==
    /\ line.tag = "ok"
    /\ itemValid
    /\ line.rel.version.major = 3
    /\ line.rel.version.patch = 12
    /\ StartsWith(line.rel.url, HTTPS)
    /\ EndsWith(line.rel.url, TAR_GZ)

\* C6: once latest_versions has returned for an input of valid records only,
\* the minor numbers of the result are strictly ascending and are exactly the
\* minor numbers of the input.
C6_OnePerMinorAscending ==
    (pc = "latest_done" /\ AllValid(result)) =>
        /\ \A j \in 1..Len(latest) : \A k \in 1..Len(latest) :
               j < k => latest[j].version.minor < latest[k].version.minor
        /\ Minors(latest) = Minors(result)

\* C6 witness: two valid records, the greater minor first, and a result of two
\* records in the other order.
C6_Witness ==
    /\ pc = "latest_done"
    /\ Len(result) = 2
    /\ result[1].version.minor > result[2].version.minor
    /\ latest = <<result[2], result[1]>>

\* C7: the process exits with status zero only after the text was fetched,
\* parsed and the result printed; a failure exits with a message.
C7_ExitOrder ==
    /\ exit = "success" => (fetched /\ ret = "Ok" /\ stdout # <<>>)
    /\ exit = "failure" => stdout # <<>>

\* The input indices holding the greatest version of minor m.
MaxOfMinor(m) ==
    {n \in 1..Len(result) :
        /\ result[n].version.minor = m
        /\ \A q \in 1..Len(result) :
               result[q].version.minor = m
                   => CmpVersion(result[q].version, result[n].version) <= 0}

Max(S) == CHOOSE n \in S : \A q \in S : q <= n

\* C8: when several input records of one minor hold the same greatest version
\* (empty prerelease and build), latest_versions returns the one that comes
\* last in the input.
C8_LastOneWins ==
    pc = "latest_done" =>
        \A m \in Minors(result) :
            LET M == MaxOfMinor(m)
            IN  (/\ Cardinality(M) >= 2
                 /\ \A n \in M : /\ result[n].version.pre = <<>>
                                 /\ result[n].version.build = <<>>)
                => /\ \E j \in 1..Len(latest) : latest[j].version.minor = m
                   /\ \A j \in 1..Len(latest) :
                          latest[j].version.minor = m => latest[j] = result[Max(M)]

\* C8 witness: two input records of the same version and different urls, and
\* the result is the second.
C8_Witness ==
    /\ pc = "latest_done"
    /\ Len(result) = 2
    /\ result[1].version = result[2].version
    /\ result[1].version.build = <<>>
    /\ result[1].url # result[2].url
    /\ latest = <<result[2]>>

\* C9: a record that passes valid() has an empty prerelease and empty build
\* metadata.
C9_NoBuildMetadata ==
    (line.tag = "ok" /\ itemValid) =>
        /\ line.rel.version.pre = <<>>
        /\ line.rel.version.build = <<>>

\* The rows that deserialize and are valid.
Kept ==
    {n \in 1..Len(csv.rows) :
        LET d == Deserialize(csv.header, csv.rows[n])
        IN  d.tag = "ok" /\ valid(d.rel)}

\* C10: what parse_data returns is the sequence of the rows that deserialize
\* and are valid, in row order, each with the url and sha256 of its row: the
\* k-th record returned comes from the k-th kept row. For a text without rows
\* it is the empty sequence, and no error.
C10_ParsedSubsequence ==
    pc = "parse_returned" =>
        /\ ret = "Ok"
        /\ Len(result) = Cardinality(Kept)
        /\ \A k \in 1..Len(result) :
               LET n == CHOOSE x \in Kept : Cardinality({q \in Kept : q <= x}) = k
               IN  /\ result[k] = Deserialize(csv.header, csv.rows[n]).rel
                   /\ result[k].url = FieldOf(csv.header, csv.rows[n], "url")
                   /\ result[k].sha256 = FieldOf(csv.header, csv.rows[n], "sha256")
        /\ csv.rows = <<>> => result = <<>>

\* C10 witness: parse_data returned for a text of two rows whose first row
\* deserialized but is not valid, and whose second row is the one returned.
C10_Witness ==
    /\ pc = "parse_returned"
    /\ Len(csv.rows) = 2
    /\ Deserialize(csv.header, csv.rows[1]).tag = "ok"
    /\ Kept = {2}
    /\ Len(result) = 1
    /\ result[1].url = csv.rows[2][2]

=============================================================================
